---- MODULE Spec2Model ----
(***************************************************************************)
(* Model of go-sigma-rule-engine:                                          *)
(*   pkg/condition/condition_parser.go  parser.run, the token-sequence     *)
(*       validator, parseSearch and parseSimpleSearch;                     *)
(*   pkg/sigma/sigma.go                 NewRuleset, RuleGroup.Check,       *)
(*       RuleMap.Check, Detection.Fields / FieldSlice, the error types.    *)
(***************************************************************************)
EXTENDS Integers, Sequences, FiniteSets, TLC

\* ------------------------------------------------------------------------
\* Bounds of the model
\* ------------------------------------------------------------------------
MaxItems == 4      \* longest lexer item stream fed to parser.run
MaxFlat == 4       \* longest token list handed directly to parseSimpleSearch

\* ------------------------------------------------------------------------
\* Token kinds
\* ------------------------------------------------------------------------
TokBegin == "TokBegin"
TokNil == "TokNil"
TokUnsupp == "TokUnsupp"
LitEof == "LitEof"
Identifier == "Identifier"
IdentifierWithWildcard == "IdentifierWithWildcard"
IdentifierAll == "IdentifierAll"
KeywordAnd == "KeywordAnd"
KeywordOr == "KeywordOr"
KeywordNot == "KeywordNot"
KeywordOf == "KeywordOf"
StAll == "StAll"
StOne == "StOne"
SepLpar == "SepLpar"
SepRpar == "SepRpar"

Item(T, Val) == [T |-> T, Val |-> Val]

\* the detection map handed to the parser: search expressions A and B exist,
\* X does not
DetectionKeys == {"condition", "A", "B"}

\* items a lexer can deliver
LexAlphabet ==
    { Item(Identifier, "A"), Item(Identifier, "B"), Item(Identifier, "X"),
      Item(KeywordAnd, "and"), Item(KeywordOr, "or"), Item(KeywordNot, "not"),
      Item(KeywordOf, "of"), Item(StAll, "all"), Item(StOne, "1"),
      Item(IdentifierWithWildcard, "A*"), Item(IdentifierAll, "them"),
      Item(SepLpar, "("), Item(SepRpar, ")"),
      Item(LitEof, ""), Item(TokUnsupp, "|") }

\* tokens of a flat (group free, quantifier free) condition
FlatAlphabet ==
    { Item(Identifier, "A"), Item(Identifier, "B"), Item(Identifier, "X"),
      Item(KeywordAnd, "and"), Item(KeywordOr, "or"), Item(KeywordNot, "not") }

SeqsUpTo(S, n) == UNION { [1..k -> S] : k \in 0..n }

\* ------------------------------------------------------------------------
\* Errors: the dynamic type of the error value and its payload
\* ------------------------------------------------------------------------
Err(type, Msg, args) == [type |-> type, Msg |-> Msg, args |-> args]
NoErr == Err("nil", "", <<>>)
\* fmt.Errorf(...) builds a plain error value
Errorf(Msg, args) == Err("errorString", Msg, args)
ErrUnsupportedToken(Msg) == Err("ErrUnsupportedToken", Msg, <<>>)

\* ------------------------------------------------------------------------
\* State
\* ------------------------------------------------------------------------
VARIABLES
    pc,                \* position of the running call
    lexItems,          \* p.lex.items: everything the lexer delivers
    pos,               \* index of the next item to be received
    tokens,            \* p.tokens
    previous,          \* p.previous
    err,               \* error returned by the running call
    parseSearchCalled, \* parser.run got to its pass 2
    t,                 \* argument of parseSearch / parseSimpleSearch
    idx,               \* range index of parseSimpleSearch's loop
    negated,           \* parseSimpleSearch local
    rules,             \* parseSimpleSearch local
    modifiers          \* parseSimpleSearch local

parserVars == <<pc, lexItems, pos, tokens, previous, err, parseSearchCalled,
                t, idx, negated, rules, modifiers>>

VARIABLES
    nrpc,              \* NewRuleset: position
    files,             \* NewRuleset: the rule files discovered, with their content
    loopVarPerIter,    \* the build gives a range loop a fresh variable per iteration
    fi,                \* NewRuleset: index of the file loop
    decoded,           \* NewRuleset local
    di,                \* NewRuleset: index of decodedloop
    nrRules,           \* NewRuleset local `rules`
    gi,                \* NewRuleset: index of groupLoop
    r,                 \* NewRuleset: the Ruleset under construction
    heap,              \* the loop variables that entries of r point into
    nrReturn           \* what NewRuleset returned

rulesetVars == <<nrpc, files, loopVarPerIter, fi, decoded, di, nrRules, gi, r,
                 heap, nrReturn>>

VARIABLES
    d,                 \* Fields: the Detection map, key -> content
    toRange,           \* Fields: keys the producer's range loop has yet to visit
    fpc,               \* Fields: position of the producer goroutine
    sending,           \* Fields: the value the producer is blocked sending
    chClosed,          \* Fields: the channel tx is closed
    cpc,               \* FieldSlice: position of the consumer
    tx                 \* FieldSlice: the slice of names collected

fieldsVars == <<d, toRange, fpc, sending, chClosed, cpc, tx>>

VARIABLES
    ruleMap,           \* Check: the RuleMap, group name -> RuleGroup
    rulegroup,         \* Check: argument of RuleMap.Check
    firstmatch,        \* Check: argument
    ckpc,              \* Check: position
    group,             \* RuleGroup.Check: the receiver
    ci,                \* RuleGroup.Check: index of the range loop
    res,               \* RuleGroup.Check local
    ckReturn           \* what Check returned

checkVars == <<ruleMap, rulegroup, firstmatch, ckpc, group, ci, res, ckReturn>>

vars == <<parserVars, rulesetVars, fieldsVars, checkVars>>

outsideParser == <<rulesetVars, fieldsVars, checkVars>>
outsideRuleset == <<parserVars, fieldsVars, checkVars>>
outsideFields == <<parserVars, rulesetVars, checkVars>>
outsideCheck == <<parserVars, rulesetVars, fieldsVars>>

\* ------------------------------------------------------------------------
\* Token-sequence validator
\* ------------------------------------------------------------------------
\* adjacency table: may kind t2 follow kind t1
validTokenSequence(t1, t2) ==
    CASE t2 \in {StAll, StOne} ->
            t1 \in {TokBegin, SepLpar, KeywordAnd, KeywordOr, KeywordNot}
      [] t2 = IdentifierAll -> t1 = KeywordOf
      [] t2 \in {Identifier, IdentifierWithWildcard} ->
            t1 \in {TokBegin, SepLpar, KeywordAnd, KeywordOr, KeywordNot, KeywordOf}
      [] t2 \in {KeywordAnd, KeywordOr} ->
            t1 \in {Identifier, IdentifierAll, IdentifierWithWildcard, SepRpar}
      [] t2 = KeywordNot -> t1 \in {TokBegin, SepLpar, KeywordAnd, KeywordOr}
      [] t2 = KeywordOf -> t1 \in {StAll, StOne}
      [] t2 = SepLpar ->
            t1 \in {TokBegin, SepLpar, KeywordAnd, KeywordOr, KeywordNot}
      [] t2 = SepRpar ->
            t1 \in {Identifier, IdentifierAll, IdentifierWithWildcard, SepRpar}
      [] t2 = LitEof ->
            t1 \in {Identifier, IdentifierAll, IdentifierWithWildcard, SepRpar}
      [] OTHER -> FALSE

\* what the loop body decides about one item: the error it returns, NoErr
\* when the item is accepted
collectCheck_sequenceFirst(prev, item) ==
    IF ~validTokenSequence(prev, item.T)
    THEN Errorf("invalid token sequence %s -> %s. Value: %s",
                <<prev, item.T, item.Val>>)
    ELSE IF item.T = TokUnsupp
    THEN ErrUnsupportedToken(item.Val)
    ELSE NoErr

collectCheck(prev, item) ==
    IF item.T = TokUnsupp
    THEN ErrUnsupportedToken(item.Val)
    ELSE IF ~validTokenSequence(prev, item.T)
    THEN Errorf("invalid token sequence %s -> %s. Value: %s",
                <<prev, item.T, item.Val>>)
    ELSE NoErr

\* p.tokens after an accepted item
collectAppend_keepEof(toks, item) == Append(toks, item)

collectAppend(toks, item) ==
    IF item.T # LitEof THEN Append(toks, item) ELSE toks

\* one iteration of `for item := range p.lex.items`
collectItem ==
    /\ pc = "collect"
    /\ pos <= Len(lexItems)
    /\ LET item == lexItems[pos]
           e == collectCheck(previous, item) IN
       IF e # NoErr
       THEN /\ err' = e
            /\ pc' = "done"
            /\ UNCHANGED <<tokens, previous, pos>>
       ELSE /\ tokens' = collectAppend(tokens, item)
            /\ previous' = item.T
            /\ pos' = pos + 1
            /\ UNCHANGED <<err, pc>>
    /\ UNCHANGED <<lexItems, parseSearchCalled, t, idx, negated, rules, modifiers>>
    /\ UNCHANGED outsideParser

\* the channel is closed: the range loop ends, the last kind is examined and
\* parser.run goes on to its second pass
collectClosed ==
    /\ pc = "collect"
    /\ pos > Len(lexItems)
    /\ IF previous # LitEof
       THEN /\ err' = Errorf("last element should be EOF, got %s", <<previous>>)
            /\ pc' = "done"
       ELSE /\ pc' = "parseSearch"
            /\ UNCHANGED err
    /\ UNCHANGED <<lexItems, pos, tokens, previous, parseSearchCalled,
                   t, idx, negated, rules, modifiers>>
    /\ UNCHANGED outsideParser

collectAndValidateTokenSequences == collectItem \/ collectClosed

\* ------------------------------------------------------------------------
\* parseSearch
\* ------------------------------------------------------------------------
\* tokens.contains
contains(toks, kind) == \E i \in 1..Len(toks) : toks[i].T = kind

\* Detection.Get: a search expression for a key of the map, nil otherwise
Get(data, key) == [ok |-> key \in data, Name |-> key]

\* newRuleMatcherFromIdent: a leaf matcher for a search expression, an error
\* for a nil one
newRuleMatcherFromIdent(expr) ==
    IF expr.ok
    THEN [r |-> expr.Name, err |-> NoErr]
    ELSE [r |-> "", err |-> Errorf("missing rule identifier", <<expr.Name>>)]

\* group discovery: one left to right scan with a balance counter; a span
\* opens on the first unmatched SepLpar and closes when the balance is back
\* at zero
groupScanStep(st, toks, i) ==
    IF st.err # NoErr THEN st
    ELSE IF toks[i].T = SepLpar
    THEN [st EXCEPT !.balance = st.balance + 1,
                    !.from = IF st.balance = 0 THEN i ELSE st.from]
    ELSE IF toks[i].T = SepRpar
    THEN IF st.balance = 0
         THEN [st EXCEPT !.err = Errorf("unmatched closing parenthesis", <<toks[i].Val>>)]
         ELSE [st EXCEPT !.balance = st.balance - 1,
                         !.groups = IF st.balance = 1
                                    THEN Append(st.groups, [From |-> st.from, To |-> i])
                                    ELSE st.groups]
    ELSE st

RECURSIVE groupScan(_, _)
groupScan(toks, n) ==
    IF n = 0
    THEN [balance |-> 0, from |-> 0, groups |-> <<>>, err |-> NoErr]
    ELSE groupScanStep(groupScan(toks, n - 1), toks, n)

newGroupOffsetInTokens(toks) ==
    LET st == groupScan(toks, Len(toks)) IN
    IF st.err # NoErr
    THEN [groups |-> <<>>, ok |-> FALSE, err |-> st.err]
    ELSE IF st.balance > 0
    THEN [groups |-> <<>>, ok |-> FALSE,
          err |-> Errorf("unexpected end of condition", <<>>)]
    ELSE [groups |-> st.groups, ok |-> Len(st.groups) > 0, err |-> NoErr]

\* the error parseSearch returns before it gets to parseSimpleSearch, NoErr
\* when it does get there
parseSearchGuard(toks) ==
    IF contains(toks, IdentifierAll)
    THEN Errorf("TODO - THEM identifier", <<>>)
    ELSE IF contains(toks, IdentifierWithWildcard)
    THEN Errorf("TODO - wildcard identifier", <<>>)
    ELSE IF contains(toks, StOne) \/ contains(toks, StAll)
    THEN Errorf("TODO - X of statement", <<>>)
    ELSE LET g == newGroupOffsetInTokens(toks) IN
         IF g.err # NoErr THEN g.err
         ELSE IF g.ok
         THEN Errorf("TODO - implement parsing sub-groups recursively", <<>>)
         ELSE NoErr

\* parser.run, pass 2: parseSearch(p.tokens, p.sigma, rule.Config{})
parseSearch ==
    /\ pc = "parseSearch"
    /\ parseSearchCalled' = TRUE
    /\ t' = tokens
    /\ LET e == parseSearchGuard(tokens) IN
       IF e # NoErr
       THEN /\ err' = e
            /\ pc' = "done"
       ELSE /\ pc' = "simple"
            /\ UNCHANGED err
    /\ UNCHANGED <<lexItems, pos, tokens, previous, idx, negated, rules, modifiers>>
    /\ UNCHANGED outsideParser

\* ------------------------------------------------------------------------
\* parseSimpleSearch
\* ------------------------------------------------------------------------
\* the operand appended for an identifier: r, or match.NodeNot{Branch: r}
Operand(neg, branch) == [NodeNot |-> neg, Branch |-> branch]

\* "no modifier on this rule, mark it as such for second pass"
noModifier_offByOne(mods, rs) == Len(mods) # Len(rs)

noModifier(mods, rs) == Len(mods) - 1 # Len(rs)

\* one iteration of `for _, item := range t`
parseSimpleSearchItem ==
    /\ pc = "simple"
    /\ idx <= Len(t)
    /\ LET item == t[idx] IN
       CASE item.T = KeywordNot ->
              /\ negated' = TRUE
              /\ idx' = idx + 1
              /\ UNCHANGED <<modifiers, rules, err, pc>>
         [] item.T = KeywordAnd ->
              /\ modifiers' = Append(modifiers, KeywordAnd)
              /\ idx' = idx + 1
              /\ UNCHANGED <<negated, rules, err, pc>>
         [] item.T = KeywordOr ->
              /\ modifiers' = Append(modifiers, KeywordOr)
              /\ idx' = idx + 1
              /\ UNCHANGED <<negated, rules, err, pc>>
         [] item.T = Identifier ->
              LET m == newRuleMatcherFromIdent(Get(DetectionKeys, item.Val)) IN
              IF m.err # NoErr
              THEN /\ err' = m.err
                   /\ pc' = "done"
                   /\ UNCHANGED <<negated, rules, modifiers, idx>>
              ELSE /\ modifiers' = IF noModifier(modifiers, rules)
                                   THEN Append(modifiers, TokNil)
                                   ELSE modifiers
                   /\ rules' = Append(rules, Operand(negated, m.r))
                   /\ negated' = FALSE
                   /\ idx' = idx + 1
                   /\ UNCHANGED <<err, pc>>
         [] OTHER ->
              /\ idx' = idx + 1
              /\ UNCHANGED <<negated, rules, modifiers, err, pc>>
    /\ UNCHANGED <<lexItems, pos, tokens, previous, parseSearchCalled, t>>
    /\ UNCHANGED outsideParser

\* the loop is over
parseSimpleSearchReturn ==
    /\ pc = "simple"
    /\ idx > Len(t)
    /\ err' = Errorf("WIP", <<>>)
    /\ pc' = "done"
    /\ UNCHANGED <<lexItems, pos, tokens, previous, parseSearchCalled, t,
                   idx, negated, rules, modifiers>>
    /\ UNCHANGED outsideParser

parseSimpleSearch == parseSimpleSearchItem \/ parseSimpleSearchReturn

\* ------------------------------------------------------------------------
\* NewRuleset
\* ------------------------------------------------------------------------
MaxFiles == 3      \* most rule files discovered

Products == {"", "windows", "linux"}

\* what ParseDetection makes of a rule's detection: a tree, or an error
CompileResults ==
    { NoErr, ErrUnsupportedToken("|"), Err("ErrWip", "Work in progress", <<>>),
      Errorf("invalid token sequence %s -> %s. Value: %s",
             <<Identifier, Identifier, "B">>) }

\* a discovered file: unreadable, multi-part YAML, undecodable YAML, or a rule
FileContents ==
    { [kind |-> k, Product |-> "", Detection |-> NoErr] :
          k \in {"unreadable", "multipart", "badyaml"} }
    \cup { [kind |-> "rule", Product |-> p, Detection |-> c] :
          p \in Products, c \in CompileResults }

\* yaml.Unmarshal of the i-th file into a RawRule
RawRule(i, f) == [ID |-> i, Product |-> f.Product, Detection |-> f.Detection]

NewRule(tree, raw, path) == [tree |-> tree, RawRule |-> raw, Path |-> path]

\* ParseDetection
ParseDetection(detection) == [tree |-> detection = NoErr, err |-> detection]

\* address of a range loop's variable in iteration i
Addr(var, i) == [var |-> var, iter |-> IF loopVarPerIter THEN i ELSE 0]
NilAddr == [var |-> "nil", iter |-> 0]

UnsupportedRawRule(Path, Reason, Error, Rule) ==
    [Path |-> Path, Reason |-> Reason, Error |-> Error, Rule |-> Rule]

UnsupportedErrorTypes ==
    { "*ErrUnsupportedToken", "*ErrIncompleteDetection", "*ErrWip",
      "ErrUnsupportedToken", "ErrIncompleteDetection", "ErrWip" }

\* the list of the Ruleset that the type switch appends a failed rule to
Bucket(e) == IF e.type \in UnsupportedErrorTypes THEN "Unsupported" ELSE "Broken"

\* the type switch on the compile error of dec
recordFailure_dropsBroken(rs, path, rule, e) ==
    IF Bucket(e) = "Unsupported"
    THEN [rs EXCEPT !.Unsupported =
                Append(@, UnsupportedRawRule(path, "", e, rule))]
    ELSE rs

recordFailure(rs, path, rule, e) ==
    IF Bucket(e) = "Unsupported"
    THEN [rs EXCEPT !.Unsupported =
                Append(@, UnsupportedRawRule(path, "", e, rule))]
    ELSE [rs EXCEPT !.Broken =
                Append(@, UnsupportedRawRule(path, "", e, rule))]

Returned(rNil, e) == [returned |-> TRUE, rNil |-> rNil, err |-> e]

EmptyMap == [p \in {} |-> <<>>]

\* `loop`: one file is read and decoded
nrReadFile ==
    /\ nrpc = "files"
    /\ fi <= Len(files)
    /\ LET f == files[fi] IN
       CASE f.kind = "unreadable" ->
              /\ nrReturn' = Returned(TRUE, Errorf("ioutil.ReadFile", <<>>))
              /\ nrpc' = "done"
              /\ UNCHANGED <<r, decoded, fi>>
         [] f.kind = "multipart" ->
              /\ r' = [r EXCEPT !.Unsupported =
                          Append(@, UnsupportedRawRule(fi, "Multi-part YAML",
                                                       NoErr, NilAddr))]
              /\ fi' = fi + 1
              /\ UNCHANGED <<decoded, nrReturn, nrpc>>
         [] f.kind = "badyaml" ->
              /\ nrReturn' = Returned(TRUE, Errorf("yaml.Unmarshal", <<>>))
              /\ nrpc' = "done"
              /\ UNCHANGED <<r, decoded, fi>>
         [] OTHER ->
              /\ decoded' = Append(decoded, NewRule(FALSE, RawRule(fi, f), fi))
              /\ fi' = fi + 1
              /\ UNCHANGED <<r, nrReturn, nrpc>>
    /\ UNCHANGED <<files, loopVarPerIter, di, nrRules, gi, heap>>
    /\ UNCHANGED outsideRuleset

nrFilesDone ==
    /\ nrpc = "files"
    /\ fi > Len(files)
    /\ nrpc' = "decoded"
    /\ UNCHANGED <<files, loopVarPerIter, fi, decoded, di, nrRules, gi, r, heap,
                   nrReturn>>
    /\ UNCHANGED outsideRuleset

\* `decodedloop`: one decoded rule is compiled
nrCompile ==
    /\ nrpc = "decoded"
    /\ di <= Len(decoded)
    /\ LET dec == decoded[di]
           a == Addr("dec", di)
           pd == ParseDetection(dec.RawRule.Detection) IN
       /\ heap' = (a :> dec.RawRule) @@ heap
       /\ IF pd.err # NoErr
          THEN /\ r' = recordFailure(r, dec.Path, a, pd.err)
               /\ UNCHANGED nrRules
          ELSE /\ nrRules' = Append(nrRules, NewRule(pd.tree, dec.RawRule, dec.Path))
               /\ UNCHANGED r
    /\ di' = di + 1
    /\ UNCHANGED <<files, loopVarPerIter, fi, decoded, gi, nrReturn, nrpc>>
    /\ UNCHANGED outsideRuleset

nrDecodedDone ==
    /\ nrpc = "decoded"
    /\ di > Len(decoded)
    /\ IF Len(nrRules) = 0
       THEN /\ nrReturn' = Returned(FALSE, Errorf("unable to parse any rules from %+v", <<>>))
            /\ nrpc' = "done"
            /\ UNCHANGED r
       ELSE /\ r' = [r EXCEPT !.Total = Len(nrRules)]
            /\ nrpc' = "group"
            /\ UNCHANGED nrReturn
    /\ UNCHANGED <<files, loopVarPerIter, fi, decoded, di, nrRules, gi, heap>>
    /\ UNCHANGED outsideRuleset

\* the body of groupLoop: the Ruleset after rule, whose loop variable is at
\* address a, has been filed
groupRule_keepsTotal(rs, rule, a) ==
    LET product == rule.RawRule.Product IN
    IF product = ""
    THEN [rs EXCEPT
             !.Unsupported =
                 Append(@, UnsupportedRawRule(rule.Path,
                            "Missing PRODUCT in LOGSOURCE", NoErr, a))]
    ELSE IF product \in DOMAIN rs.Rules
    THEN [rs EXCEPT !.Rules[product] = Append(@, rule)]
    ELSE [rs EXCEPT !.Rules = (product :> <<rule>>) @@ @]

groupRule(rs, rule, a) ==
    LET product == rule.RawRule.Product IN
    IF product = ""
    THEN [rs EXCEPT
             !.Unsupported =
                 Append(@, UnsupportedRawRule(rule.Path,
                            "Missing PRODUCT in LOGSOURCE", NoErr, a)),
             !.Total = @ - 1]
    ELSE IF product \in DOMAIN rs.Rules
    THEN [rs EXCEPT !.Rules[product] = Append(@, rule)]
    ELSE [rs EXCEPT !.Rules = (product :> <<rule>>) @@ @]

\* `groupLoop`: one compiled rule is filed under its product
nrGroup ==
    /\ nrpc = "group"
    /\ gi <= Len(nrRules)
    /\ LET rule == nrRules[gi]
           a == Addr("rule", gi) IN
       /\ heap' = (a :> rule.RawRule) @@ heap
       /\ r' = groupRule(r, rule, a)
    /\ gi' = gi + 1
    /\ UNCHANGED <<files, loopVarPerIter, fi, decoded, di, nrRules, nrReturn, nrpc>>
    /\ UNCHANGED outsideRuleset

nrGroupDone ==
    /\ nrpc = "group"
    /\ gi > Len(nrRules)
    /\ nrReturn' = Returned(FALSE, NoErr)
    /\ nrpc' = "done"
    /\ UNCHANGED <<files, loopVarPerIter, fi, decoded, di, nrRules, gi, r, heap>>
    /\ UNCHANGED outsideRuleset

NewRuleset ==
    \/ nrReadFile \/ nrFilesDone
    \/ nrCompile \/ nrDecodedDone
    \/ nrGroup \/ nrGroupDone

\* ------------------------------------------------------------------------
\* Detection.Fields and Detection.FieldSlice
\* ------------------------------------------------------------------------
ExprSelection == "ExprSelection"
ExprKeywords == "ExprKeywords"

\* keys a detection map may hold, and the contents of an entry
DetectionKeyUniverse == {"condition", "selection", "keywords", "filter"}
KeywordPrefixed == {"keywords"}
Contents == {"c1", "c2"}

\* SearchExpr.Guess applied to SearchExpr{Name: k, Content: v}
Guess(k, v) ==
    [Name |-> k,
     Type |-> IF k \in KeywordPrefixed THEN ExprKeywords ELSE ExprSelection,
     Content |-> v]

NoExpr == [Name |-> "", Type |-> "ExprUnk", Content |-> ""]

\* the keys the range loop of Fields passes over without sending
skipKey_none(k) == FALSE

skipKey(k) == k = "condition"

\* producer goroutine: the range loop takes the next key, in any order, and
\* gets to the send unless the key is skipped
fieldsRange ==
    /\ fpc = "range"
    /\ \E k \in toRange :
          /\ toRange' = toRange \ {k}
          /\ IF skipKey(k)
             THEN UNCHANGED <<fpc, sending>>
             ELSE /\ sending' = Guess(k, d[k])
                  /\ fpc' = "send"
    /\ UNCHANGED <<d, chClosed, cpc, tx>>
    /\ UNCHANGED outsideFields

\* unbuffered channel: the send `tx <- *e.Guess()` completes together with a
\* receive of FieldSlice's range loop, which appends the name
fieldsSendReceive ==
    /\ fpc = "send"
    /\ cpc = "recv"
    /\ tx' = Append(tx, sending.Name)
    /\ sending' = NoExpr
    /\ fpc' = "range"
    /\ UNCHANGED <<d, toRange, chClosed, cpc>>
    /\ UNCHANGED outsideFields

\* producer goroutine: the range loop is over, the deferred close runs
fieldsClose ==
    /\ fpc = "range"
    /\ toRange = {}
    /\ chClosed' = TRUE
    /\ fpc' = "exited"
    /\ UNCHANGED <<d, toRange, sending, cpc, tx>>
    /\ UNCHANGED outsideFields

\* FieldSlice: the range over the closed channel ends, tx is returned
fieldSliceReturn ==
    /\ cpc = "recv"
    /\ chClosed
    /\ cpc' = "returned"
    /\ UNCHANGED <<d, toRange, fpc, sending, chClosed, tx>>
    /\ UNCHANGED outsideFields

Fields == fieldsRange \/ fieldsSendReceive \/ fieldsClose

FieldSlice == fieldSliceReturn

\* ------------------------------------------------------------------------
\* RuleGroup.Check and RuleMap.Check
\* ------------------------------------------------------------------------
MaxGroup == 3      \* most rules in a group
MaxID == 3         \* rule ids in use

GroupNames == {"windows", "linux"}

\* a rule of a group; tree stands for the verdict rule.tree.Match(obj) on the
\* event being checked
GroupRules ==
    { [ID |-> i, Title |-> "title", Tags |-> <<"tag">>, tree |-> m] :
          i \in 1..MaxID, m \in BOOLEAN }

Result(rule) == [Tags |-> rule.Tags, ID |-> rule.ID, Title |-> rule.Title]

CheckReturned(isNil, results, ok) ==
    [returned |-> TRUE, isNil |-> isNil, res |-> results, ok |-> ok]

\* the early return of RuleGroup.Check
stopAtFirst_ignoresFlag(results, first) == Len(results) = 1

stopAtFirst(results, first) == Len(results) = 1 /\ first

\* RuleMap.Check: look the group up
ruleMapCheck ==
    /\ ckpc = "call"
    /\ IF rulegroup \in DOMAIN ruleMap
       THEN /\ group' = ruleMap[rulegroup]
            /\ ckpc' = "loop"
            /\ UNCHANGED ckReturn
       ELSE /\ ckReturn' = CheckReturned(TRUE, <<>>, FALSE)
            /\ ckpc' = "done"
            /\ UNCHANGED group
    /\ UNCHANGED <<ruleMap, rulegroup, firstmatch, ci, res>>
    /\ UNCHANGED outsideCheck

\* RuleGroup.Check: one iteration of `for _, rule := range r`
ruleGroupCheckRule ==
    /\ ckpc = "loop"
    /\ ci <= Len(group)
    /\ LET rule == group[ci]
           appended == Append(res, Result(rule)) IN
       IF rule.tree
       THEN /\ res' = appended
            /\ IF stopAtFirst(appended, firstmatch)
               THEN /\ ckReturn' = CheckReturned(FALSE, appended, TRUE)
                    /\ ckpc' = "done"
                    /\ UNCHANGED ci
               ELSE /\ ci' = ci + 1
                    /\ UNCHANGED <<ckReturn, ckpc>>
       ELSE /\ ci' = ci + 1
            /\ UNCHANGED <<res, ckReturn, ckpc>>
    /\ UNCHANGED <<ruleMap, rulegroup, firstmatch, group>>
    /\ UNCHANGED outsideCheck

\* RuleGroup.Check: after the loop
ruleGroupCheckReturn ==
    /\ ckpc = "loop"
    /\ ci > Len(group)
    /\ ckReturn' = IF Len(res) > 0
                   THEN CheckReturned(FALSE, res, TRUE)
                   ELSE CheckReturned(TRUE, <<>>, FALSE)
    /\ ckpc' = "done"
    /\ UNCHANGED <<ruleMap, rulegroup, firstmatch, group, ci, res>>
    /\ UNCHANGED outsideCheck

Check == ruleMapCheck \/ ruleGroupCheckRule \/ ruleGroupCheckReturn

\* ------------------------------------------------------------------------
\* Specifications
\* ------------------------------------------------------------------------
IdleParser ==
    /\ pc = "idle"
    /\ lexItems = <<>>
    /\ pos = 1
    /\ tokens = <<>>
    /\ previous = TokBegin
    /\ err = NoErr
    /\ parseSearchCalled = FALSE
    /\ t = <<>>
    /\ idx = 1
    /\ negated = FALSE
    /\ rules = <<>>
    /\ modifiers = <<TokNil>>

IdleRuleset ==
    /\ nrpc = "idle"
    /\ files = <<>>
    /\ loopVarPerIter = FALSE
    /\ fi = 1
    /\ decoded = <<>>
    /\ di = 1
    /\ nrRules = <<>>
    /\ gi = 1
    /\ r = [Rules |-> EmptyMap, Total |-> 0, Unsupported |-> <<>>, Broken |-> <<>>]
    /\ heap = [a \in {} |-> 0]
    /\ nrReturn = [returned |-> FALSE, rNil |-> TRUE, err |-> NoErr]

IdleFields ==
    /\ d = [k \in {} |-> ""]
    /\ toRange = {}
    /\ fpc = "idle"
    /\ sending = NoExpr
    /\ chClosed = FALSE
    /\ cpc = "idle"
    /\ tx = <<>>

IdleCheck ==
    /\ ruleMap = [g \in {} |-> <<>>]
    /\ rulegroup = ""
    /\ firstmatch = FALSE
    /\ ckpc = "idle"
    /\ group = <<>>
    /\ ci = 1
    /\ res = <<>>
    /\ ckReturn = [returned |-> FALSE, isNil |-> TRUE, res |-> <<>>, ok |-> FALSE]

\* parser.run on an item stream of the lexer
Init ==
    /\ pc = "collect"
    /\ lexItems \in SeqsUpTo(LexAlphabet, MaxItems)
    /\ pos = 1
    /\ tokens = <<>>
    /\ previous = TokBegin
    /\ err = NoErr
    /\ parseSearchCalled = FALSE
    /\ t = <<>>
    /\ idx = 1
    /\ negated = FALSE
    /\ rules = <<>>
    /\ modifiers = <<TokNil>>
    /\ IdleRuleset /\ IdleFields /\ IdleCheck

Next == collectAndValidateTokenSequences \/ parseSearch \/ parseSimpleSearch

Spec == Init /\ [][Next]_vars

\* parseSimpleSearch called on a flat token list
InitSimple ==
    /\ pc = "simple"
    /\ t \in SeqsUpTo(FlatAlphabet, MaxFlat)
    /\ lexItems = <<>>
    /\ pos = 1
    /\ tokens = <<>>
    /\ previous = TokBegin
    /\ err = NoErr
    /\ parseSearchCalled = FALSE
    /\ idx = 1
    /\ negated = FALSE
    /\ rules = <<>>
    /\ modifiers = <<TokNil>>
    /\ IdleRuleset /\ IdleFields /\ IdleCheck

NextSimple == parseSimpleSearch

SpecSimple == InitSimple /\ [][NextSimple]_vars

\* NewRuleset on the files discovered in the rule directories
InitRuleset ==
    /\ nrpc = "files"
    /\ files \in SeqsUpTo(FileContents, MaxFiles)
    /\ loopVarPerIter \in BOOLEAN
    /\ fi = 1
    /\ decoded = <<>>
    /\ di = 1
    /\ nrRules = <<>>
    /\ gi = 1
    /\ r = [Rules |-> EmptyMap, Total |-> 0, Unsupported |-> <<>>, Broken |-> <<>>]
    /\ heap = [a \in {} |-> 0]
    /\ nrReturn = [returned |-> FALSE, rNil |-> TRUE, err |-> NoErr]
    /\ IdleParser /\ IdleFields /\ IdleCheck

NextRuleset == NewRuleset

SpecRuleset == InitRuleset /\ [][NextRuleset]_vars

\* FieldSlice draining Fields of a detection map
InitFields ==
    /\ \E keys \in SUBSET DetectionKeyUniverse : d \in [keys -> Contents]
    /\ toRange = DOMAIN d
    /\ fpc = "range"
    /\ sending = NoExpr
    /\ chClosed = FALSE
    /\ cpc = "recv"
    /\ tx = <<>>
    /\ IdleParser /\ IdleRuleset /\ IdleCheck

NextFields == Fields \/ FieldSlice

\* both goroutines are scheduled as long as they can run
SpecFields == InitFields /\ [][NextFields]_vars /\ WF_vars(Fields) /\ WF_vars(FieldSlice)

\* RuleMap.Check on a rule map, a group name and an event
InitCheck ==
    /\ \E names \in SUBSET {"windows"} :
          ruleMap \in [names -> SeqsUpTo(GroupRules, MaxGroup)]
    /\ rulegroup \in GroupNames
    /\ firstmatch \in BOOLEAN
    /\ ckpc = "call"
    /\ group = <<>>
    /\ ci = 1
    /\ res = <<>>
    /\ ckReturn = [returned |-> FALSE, isNil |-> TRUE, res |-> <<>>, ok |-> FALSE]
    /\ IdleParser /\ IdleRuleset /\ IdleFields

NextCheck == Check

SpecCheck == InitCheck /\ [][NextCheck]_vars

\* ------------------------------------------------------------------------
\* Properties of the condition parser
\* ------------------------------------------------------------------------
WithoutEof(s) == SelectSeq(s, LAMBDA it : it.T # LitEof)

KindBefore(s, i) == IF i = 1 THEN TokBegin ELSE s[i - 1].T

\* the item stream is one the validator is to accept
Accepted(s) ==
    /\ \A i \in 1..Len(s) : s[i].T # TokUnsupp
    /\ \A i \in 1..Len(s) : validTokenSequence(KindBefore(s, i), s[i].T)
    /\ Len(s) > 0
    /\ s[Len(s)].T = LitEof

collectReturnedNil == pc = "parseSearch" \/ parseSearchCalled

\* C1: once collectAndValidateTokenSequences has returned, it returned no
\* error iff no item is Unsupported, every adjacent pair of kinds (from the
\* initial previous kind on, the pair ending in Eof included) is in the
\* adjacency table and the last item is Eof; the collected tokens are then
\* the received items in order without the Eof.
C1_ValidatorAcceptsIff ==
    pc # "collect" =>
        /\ (collectReturnedNil <=> Accepted(lexItems))
        /\ (collectReturnedNil => tokens = WithoutEof(lexItems))

C1_Witness ==
    /\ pc = "parseSearch"
    /\ Len(tokens) >= 3
    /\ Len(lexItems) = Len(tokens) + 1

\* the validator stopped at an Unsupported token
StoppedAtUnsupported ==
    /\ pc # "collect"
    /\ pos <= Len(lexItems)
    /\ lexItems[pos].T = TokUnsupp

\* C2: meeting an Unsupported token, at any position, the validator fails
\* with ErrUnsupportedToken carrying the token's raw text, also when the pair
\* (previous kind, Unsupported) is an illegal adjacency; neither the token nor
\* anything after it is collected and parseSearch is not reached.
C2_UnsupportedTokenFailsAtOnce ==
    StoppedAtUnsupported =>
        /\ pc = "done"
        /\ err = ErrUnsupportedToken(lexItems[pos].Val)
        /\ tokens = WithoutEof(SubSeq(lexItems, 1, pos - 1))
        /\ ~parseSearchCalled

C2_Witness ==
    /\ StoppedAtUnsupported
    /\ pos = 3
    /\ Len(tokens) = 2
    /\ Len(lexItems) > pos
    /\ ~validTokenSequence(previous, TokUnsupp)
    /\ err.type = "ErrUnsupportedToken"

\* the token list uses a grammar form that is recognised but not implemented
UsesUnimplementedForm(toks) ==
    \/ contains(toks, IdentifierAll)
    \/ contains(toks, IdentifierWithWildcard)
    \/ contains(toks, StOne)
    \/ contains(toks, StAll)
    \/ newGroupOffsetInTokens(toks).ok

\* C4: a condition with a `them` identifier, a wildcard identifier, an
\* `all of` / `1 of` quantifier or a parenthesised sub-group fails to compile
\* with an error that the type switch of NewRuleset routes to Unsupported,
\* not to Broken.
C4_UnimplementedFormIsUnsupported ==
    (pc = "done" /\ parseSearchCalled /\ UsesUnimplementedForm(t)) =>
        /\ err # NoErr
        /\ Bucket(err) = "Unsupported"

IsKnownIdentifier(it) == it.T = Identifier /\ it.Val \in DetectionKeys \ {"condition"}

\* a flat condition over identifiers of the detection
FlatOverKnown(toks) ==
    /\ Len(toks) > 0
    /\ \A i \in 1..Len(toks) :
          \/ IsKnownIdentifier(toks[i])
          \/ toks[i].T \in {KeywordAnd, KeywordOr, KeywordNot}

\* C5: a validated flat condition over identifiers of the detection, joined
\* by and / or with optional not, compiles.
C5_FlatConditionCompiles ==
    (pc = "done" /\ parseSearchCalled /\ FlatOverKnown(t)) => err = NoErr

\* a condition with balanced parentheses over identifiers of the detection
GroupedOverKnown(toks) ==
    /\ newGroupOffsetInTokens(toks).ok
    /\ \A i \in 1..Len(toks) :
          \/ IsKnownIdentifier(toks[i])
          \/ toks[i].T \in {KeywordAnd, KeywordOr, KeywordNot, SepLpar, SepRpar}

\* C6: a validated condition with balanced parentheses over identifiers of
\* the detection compiles without a group or sequence error.
C6_GroupedConditionCompiles ==
    (pc = "done" /\ parseSearchCalled /\ GroupedOverKnown(t)) => err = NoErr

\* positions of the identifiers among the first n tokens, in order
RECURSIVE IdentPositions(_, _)
IdentPositions(toks, n) ==
    IF n = 0 THEN <<>>
    ELSE IF toks[n].T = Identifier
    THEN Append(IdentPositions(toks, n - 1), n)
    ELSE IdentPositions(toks, n - 1)

\* number of `not` tokens between the previous operand and position i
NotsSincePreviousOperand(toks, i) ==
    LET before == IdentPositions(toks, i - 1)
        from == IF before = <<>> THEN 0 ELSE before[Len(before)]
    IN Cardinality({ j \in (from + 1)..(i - 1) : toks[j].T = KeywordNot })

\* the operands appended so far belong to the identifiers scanned so far
OperandsScanned == IdentPositions(t, idx - 1)

WellFormed(toks) ==
    /\ Len(toks) > 0
    /\ toks[Len(toks)].T = Identifier
    /\ \A i \in 1..Len(toks) :
          /\ toks[i].T = KeywordNot =>
                /\ toks[i + 1].T = Identifier
                /\ (i > 1 => toks[i - 1].T \in {KeywordAnd, KeywordOr})
          /\ toks[i].T \in {KeywordAnd, KeywordOr} =>
                /\ i > 1
                /\ toks[i - 1].T = Identifier
                /\ toks[i + 1].T \in {KeywordNot, Identifier}
          /\ toks[i].T = Identifier =>
                (i > 1 => toks[i - 1].T \in {KeywordAnd, KeywordOr, KeywordNot})

\* first position of the operand whose identifier is at position i
OperandStart(toks, i) ==
    IF i > 1 /\ toks[i - 1].T = KeywordNot THEN i - 1 ELSE i

\* an identifier has just been processed
AfterIdentifier == pc = "simple" /\ idx > 1 /\ t[idx - 1].T = Identifier

\* C8: on a well formed flat sequence, after each identifier the operator
\* list and the operand list have the same length, the first operand's
\* operator is the placeholder and operator i is the and / or keyword just
\* before operand i.
C8_Lockstep ==
    (AfterIdentifier /\ WellFormed(t)) =>
        /\ Len(modifiers) = Len(rules)
        /\ Len(rules) = Len(OperandsScanned)
        /\ modifiers[1] = TokNil
        /\ \A k \in 2..Len(rules) :
              modifiers[k] = t[OperandStart(t, OperandsScanned[k]) - 1].T
        /\ \A k \in 1..Len(rules) :
              rules[k].Branch = t[OperandsScanned[k]].Val

C8_Witness ==
    /\ AfterIdentifier
    /\ WellFormed(t)
    /\ Len(rules) = 2
    /\ modifiers = <<TokNil, KeywordOr>>
    /\ rules[2].NodeNot

\* ------------------------------------------------------------------------
\* Properties of NewRuleset
\* ------------------------------------------------------------------------
\* NewRuleset went through decodedloop and returned
ReturnedAfterCompiling == nrpc = "done" /\ ~nrReturn.rNil

FailsToCompile(dec) == ParseDetection(dec.RawRule.Detection).err # NoErr

SomeCompileFailure == \E i \in 1..Len(decoded) : FailsToCompile(decoded[i])

RecordedIn(list, dec) ==
    \E i \in 1..Len(list) :
        /\ list[i].Path = dec.Path
        /\ list[i].Error = dec.RawRule.Detection

CompiledAndKept(dec) ==
    \E i \in 1..Len(nrRules) :
        /\ nrRules[i].Path = dec.Path
        /\ nrRules[i].RawRule = dec.RawRule
        /\ nrRules[i].tree

EveryRuleAccountedFor ==
    \A i \in 1..Len(decoded) :
        IF FailsToCompile(decoded[i])
        THEN RecordedIn(r.Unsupported, decoded[i]) \/ RecordedIn(r.Broken, decoded[i])
        ELSE CompiledAndKept(decoded[i])

\* C3 as stated: compile errors of some decoded rules never abort the batch;
\* each failing rule is recorded in Unsupported or Broken, every other decoded
\* rule is compiled and kept, and NewRuleset returns no error because of the
\* compile failures.
C3_CompileErrorsReturnNoError ==
    (ReturnedAfterCompiling /\ SomeCompileFailure) =>
        /\ EveryRuleAccountedFor
        /\ nrReturn.err = NoErr

\* C3 as amended: each failing rule is recorded in Unsupported or Broken and
\* every other decoded rule is compiled and kept; NewRuleset returns no error
\* as long as one decoded rule compiles, and when every decoded rule fails it
\* returns the Ruleset together with the error "unable to parse any rules".
C3_CompileErrorsAreLocal ==
    (ReturnedAfterCompiling /\ SomeCompileFailure) =>
        /\ EveryRuleAccountedFor
        /\ nrReturn.err = NoErr <=> Len(nrRules) > 0
        /\ Len(nrRules) > 0 <=> (\E i \in 1..Len(decoded) : ~FailsToCompile(decoded[i]))
        /\ nrReturn.err # NoErr =>
              nrReturn.err = Errorf("unable to parse any rules from %+v", <<>>)

C3_Witness ==
    /\ ReturnedAfterCompiling
    /\ nrReturn.err = NoErr
    /\ Len(r.Broken) = 1
    /\ \E i \in 1..Len(r.Unsupported) : r.Unsupported[i].Error # NoErr
    /\ Len(nrRules) = 1

ReturnedWithoutError == ReturnedAfterCompiling /\ nrReturn.err = NoErr

RECURSIVE StoredIn(_, _)
\* number of rules stored in the groups of the keys ks
StoredIn(rm, ks) ==
    IF ks = {} THEN 0
    ELSE LET p == CHOOSE k \in ks : TRUE
         IN Len(rm[p]) + StoredIn(rm, ks \ {p})

\* the places (key, index) of Rules that hold the rule read from path
PlacesOf(path) ==
    UNION { { <<p, i>> : i \in { j \in 1..Len(r.Rules[p]) : r.Rules[p][j].Path = path } } :
            p \in DOMAIN r.Rules }

\* the entries of Unsupported that report the rule read from path as lacking
\* a product
MissingProductEntries(path) ==
    { i \in 1..Len(r.Unsupported) :
          /\ r.Unsupported[i].Path = path
          /\ r.Unsupported[i].Reason = "Missing PRODUCT in LOGSOURCE" }

\* C11: when NewRuleset returns without error, Total is the number of rules
\* stored across the groups of Rules, every rule under key p has the
\* non-empty product p, and every compiled rule is in exactly one group, or,
\* its product being empty, is recorded once in Unsupported with the reason
\* "Missing PRODUCT in LOGSOURCE" and is in no group.
C11_TotalAndGrouping ==
    ReturnedWithoutError =>
        /\ r.Total = StoredIn(r.Rules, DOMAIN r.Rules)
        /\ \A p \in DOMAIN r.Rules :
              /\ p # ""
              /\ \A i \in 1..Len(r.Rules[p]) : r.Rules[p][i].RawRule.Product = p
        /\ \A i \in 1..Len(decoded) :
              ~FailsToCompile(decoded[i]) =>
                  IF decoded[i].RawRule.Product # ""
                  THEN /\ Cardinality(PlacesOf(decoded[i].Path)) = 1
                       /\ MissingProductEntries(decoded[i].Path) = {}
                  ELSE /\ PlacesOf(decoded[i].Path) = {}
                       /\ Cardinality(MissingProductEntries(decoded[i].Path)) = 1

C11_Witness ==
    /\ ReturnedWithoutError
    /\ r.Total = 2
    /\ Cardinality(DOMAIN r.Rules) = 2
    /\ \E i \in 1..Len(r.Unsupported) :
          r.Unsupported[i].Reason = "Missing PRODUCT in LOGSOURCE"

\* the entries of Unsupported and Broken that carry a Rule pointer
EntriesWithRule ==
    { <<"Unsupported", i>> : i \in { j \in 1..Len(r.Unsupported) :
                                        r.Unsupported[j].Rule # NilAddr } }
    \cup { <<"Broken", i>> : i \in { j \in 1..Len(r.Broken) :
                                        r.Broken[j].Rule # NilAddr } }

EntryAt(e) == IF e[1] = "Unsupported" THEN r.Unsupported[e[2]] ELSE r.Broken[e[2]]

\* C12: after NewRuleset returns, every entry of Unsupported or Broken with a
\* Rule pointer refers to the raw rule decoded from the entry's own Path, and
\* entries recorded in different iterations do not share one rule value.
C12_EntriesReferToOwnRule ==
    ReturnedAfterCompiling =>
        /\ \A e \in EntriesWithRule : heap[EntryAt(e).Rule].ID = EntryAt(e).Path
        /\ \A e1, e2 \in EntriesWithRule :
              e1 # e2 => EntryAt(e1).Rule # EntryAt(e2).Rule

\* ------------------------------------------------------------------------
\* Properties of Detection.Fields
\* ------------------------------------------------------------------------
FieldNames == DOMAIN d \ {"condition"}

Delivered == { tx[i] : i \in 1..Len(tx) }

\* C9: Fields delivers every key of the map but "condition", each once, and
\* never "condition", then closes the channel; FieldSlice, draining it,
\* returns with exactly those names, the producer goroutine ends too, and the
\* detection map is not changed.
C9_FieldsDrained ==
    /\ [](cpc = "returned" =>
            /\ Delivered = FieldNames
            /\ Len(tx) = Cardinality(FieldNames)
            /\ chClosed
            /\ fpc = "exited")
    /\ []("condition" \notin Delivered)
    /\ <>(cpc = "returned" /\ fpc = "exited")
    /\ [][d' = d]_vars

C9_Witness ==
    /\ cpc = "returned"
    /\ "condition" \in DOMAIN d
    /\ Len(tx) = 3

\* ------------------------------------------------------------------------
\* Properties of Check
\* ------------------------------------------------------------------------
Matching(g) == { i \in 1..Len(g) : g[i].tree }

FirstMatching(g) == CHOOSE i \in Matching(g) : \A j \in Matching(g) : i <= j

ResultsOfMatching(g) ==
    LET m == SelectSeq(g, LAMBDA rule : rule.tree)
    IN [i \in 1..Len(m) |-> Result(m[i])]

\* C10: RuleGroup.Check returns, with firstmatch false, one Result per
\* matching rule in the group's order and none for the others; with
\* firstmatch true, the Result of the first matching rule alone, evaluating no
\* rule after it; the boolean is true iff the result list is non-empty, and
\* no match gives (nil, false).  RuleMap.Check gives (nil, false) for a group
\* name that is not a key of the map.
C10_CheckResults ==
    ckpc = "done" =>
        IF rulegroup \notin DOMAIN ruleMap
        THEN ckReturn.isNil /\ ~ckReturn.ok
        ELSE LET g == ruleMap[rulegroup] IN
             /\ Matching(g) = {} => ckReturn.isNil /\ ~ckReturn.ok
             /\ (Matching(g) # {} /\ ~firstmatch) =>
                    /\ ~ckReturn.isNil
                    /\ ckReturn.res = ResultsOfMatching(g)
                    /\ ci = Len(g) + 1
             /\ (Matching(g) # {} /\ firstmatch) =>
                    /\ ~ckReturn.isNil
                    /\ ckReturn.res = <<Result(g[FirstMatching(g)])>>
                    /\ ci = FirstMatching(g)
             /\ ckReturn.ok <=> (~ckReturn.isNil /\ Len(ckReturn.res) > 0)

C10_Witness ==
    /\ ckpc = "done"
    /\ firstmatch
    /\ Len(group) = 3
    /\ ~group[1].tree /\ group[2].tree /\ group[3].tree
    /\ group[2].ID # group[3].ID
    /\ ckReturn.ok

====
